---- MODULE Spec2Model ----
(***************************************************************************)
(* FP-growth frequent-itemset mining of src/fpGrowth.py.                   *)
(*                                                                         *)
(* A tree is a record [heap, routes]: heap is the sequence of the FPNode   *)
(* objects of the tree in creation order (a node reference is an index     *)
(* into heap, node 1 is tree._root), routes is the dictionary              *)
(* FPTree._routes in insertion order.  The methods of FPTree and FPNode    *)
(* are operators from a tree to the tree after the call.  The generator    *)
(* find_with_suffix is run step by step on an explicit stack of            *)
(* activation frames, one action per iteration of its for loop.  The       *)
(* generator is called as main calls it, with include_support true: it     *)
(* yields (itemset, support) pairs.  The TypeError and ValueError checks   *)
(* of FPNode never fail here: every child, parent and neighbor is an       *)
(* FPNode of the same tree.                                                *)
(***************************************************************************)
EXTENDS Integers, Sequences, FiniteSets

\* The item universe: 1, 2, 3 stand for the items a, b, c.
Items == {1, 2, 3}

\* Largest number of rows of a generated batch.
MaxRows == 3

\* minimum_support ranges over 1..MaxMinSup.
MaxMinSup == 2

\* Cap on the depth of the activation stack of find_with_suffix; the stack
\* of the program never gets this deep (StackBelowCap).
MaxDepth == Cardinality(Items) + 2

\* Python's None: the root's item and count, an absent parent or neighbor.
None == -1

VARIABLES
  z,                \* the Series of item lists (line 24), a sequence of sequences
  minimum_support,  \* the parameter of find_frequent_itemsets
  pc,               \* "build" (loop of line 27), "mine" (line 46), "done"
  n,                \* the loop variable of line 27 (a Python index, from 1)
  master,           \* the FPTree of line 26
  stack,            \* activation frames of find_with_suffix, innermost last
  out               \* the pairs yielded so far, in order

vars == <<z, minimum_support, pc, n, master, stack, out>>

(***************************************************************************)
(* Sequence helpers.                                                       *)
(***************************************************************************)
ToSet(s) == {s[k] : k \in DOMAIN s}

SeqsUpTo(S, len) == UNION {[1..k -> S] : k \in 0..len}

RECURSIVE reversed(_)
reversed(s) == IF s = <<>> THEN <<>> ELSE Append(reversed(Tail(s)), Head(s))

RECURSIVE SumSeq(_)
SumSeq(s) == IF s = <<>> THEN 0 ELSE Head(s) + SumSeq(Tail(s))

\* Sequences of pairwise distinct items, in any order.
Distinct(s) == \A i, j \in DOMAIN s : i # j => s[i] # s[j]
Listings == {s \in SeqsUpTo(Items, Cardinality(Items)) : Distinct(s)}
ColumnOrders == {s \in Listings : Len(s) = Cardinality(Items)}

(***************************************************************************)
(* FPNode                                                                  *)
(***************************************************************************)
FPNode(item, count) ==
  [item |-> item, count |-> count, parent |-> None,
   children |-> <<>>, neighbor |-> None]

\* FPNode.root of node p: no item and no count.
is_root(tree, p) == tree.heap[p].item = None /\ tree.heap[p].count = None

\* FPNode.search: the child of node p for the item, or None.
search(tree, p, item) ==
  LET cs == tree.heap[p].children
      ks == {k \in DOMAIN cs : cs[k].item = item}
  IN  IF ks = {} THEN None ELSE cs[CHOOSE k \in ks : TRUE].node

\* FPNode.add: node p takes node c as a child unless it has one for c's item.
FPNode_add(tree, p, c) ==
  IF search(tree, p, tree.heap[c].item) = None
    THEN [tree EXCEPT
            !.heap[p].children =
               Append(@, [item |-> tree.heap[c].item, node |-> c]),
            !.heap[c].parent = p]
    ELSE tree

\* A reused node whose count is left as it is.
increment_dropped(tree, p) == tree

\* FPNode.increment
increment(tree, p) == [tree EXCEPT !.heap[p].count = @ + 1]

(***************************************************************************)
(* FPTree                                                                  *)
(***************************************************************************)
FPTree == [heap |-> <<FPNode(None, None)>>, routes |-> <<>>]

root == 1

\* The position of the item's entry in _routes, 0 for a KeyError.
route_of(tree, item) ==
  LET ks == {k \in DOMAIN tree.routes : tree.routes[k].item = item}
  IN  IF ks = {} THEN 0 ELSE CHOOSE k \in ks : TRUE

\* A route whose tail is not moved to the new node.
update_route_keep_tail(tree, point) ==
  LET item == tree.heap[point].item
      k == route_of(tree, item)
  IN  IF k # 0
        THEN [tree EXCEPT !.heap[tree.routes[k].tail].neighbor = point]
        ELSE [tree EXCEPT
                !.routes = Append(@, [item |-> item, head |-> point,
                                      tail |-> point])]

\* FPTree._update_route
update_route(tree, point) ==
  LET item == tree.heap[point].item
      k == route_of(tree, item)
  IN  IF k # 0
        THEN [tree EXCEPT
                !.heap[tree.routes[k].tail].neighbor = point,
                !.routes[k] = [item |-> item, head |-> tree.routes[k].head,
                               tail |-> point]]
        ELSE [tree EXCEPT
                !.routes = Append(@, [item |-> item, head |-> point,
                                      tail |-> point])]

\* A new FPNode(item, count) put under point and on its item's route.
new_child(tree, point, item, count) ==
  LET next_point == Len(tree.heap) + 1
      made == [tree EXCEPT !.heap = Append(@, FPNode(item, count))]
  IN  update_route(FPNode_add(made, point, next_point), next_point)

\* The body of FPTree.add from the node point on.
RECURSIVE add_from(_, _, _)
add_from(tree, point, transaction) ==
  IF transaction = <<>> THEN tree
  ELSE LET item == Head(transaction)
           next_point == search(tree, point, item)
       IN  IF next_point # None
             THEN add_from(increment(tree, next_point), next_point,
                           Tail(transaction))
             ELSE add_from(new_child(tree, point, item, 1),
                           Len(tree.heap) + 1, Tail(transaction))

FPTree_add(tree, transaction) == add_from(tree, root, transaction)

\* One pair per node instead of one per item.
items_of_nodes(tree) ==
  [k \in 1..(Len(tree.heap) - 1) |-> tree.heap[k + 1].item]

\* FPTree.items: the keys of _routes.
items(tree) == [k \in DOMAIN tree.routes |-> tree.routes[k].item]

\* The neighbor chain from a node on.
RECURSIVE chain(_, _)
chain(tree, node) ==
  IF node = None THEN <<>>
  ELSE <<node>> \o chain(tree, tree.heap[node].neighbor)

\* FPTree.nodes
nodes(tree, item) ==
  IF route_of(tree, item) = 0 THEN <<>>
  ELSE chain(tree, tree.routes[route_of(tree, item)].head)

\* collect_path before path.reverse(): the node and its ancestors, upwards.
RECURSIVE path_up(_, _)
path_up(tree, node) ==
  IF node = None \/ is_root(tree, node) THEN <<>>
  ELSE <<node>> \o path_up(tree, tree.heap[node].parent)

collect_path(tree, node) == reversed(path_up(tree, node))

\* FPTree.prefix_paths
prefix_paths(tree, item) ==
  LET ns == nodes(tree, item)
  IN  [k \in DOMAIN ns |-> collect_path(tree, ns[k])]

\* FPTree.nodes evaluated on the item's counts: sum(n.count for n in nodes).
support_of(tree, item) ==
  LET ns == nodes(tree, item)
  IN  SumSeq([k \in DOMAIN ns |-> tree.heap[ns[k]].count])

(***************************************************************************)
(* conditional_tree_from_paths.  The paths are sequences of nodes of the   *)
(* source tree src.                                                        *)
(***************************************************************************)
\* Every imported node keeps the count of its source node.
imported_count_kept(node, condition_item) == node.count

\* The count a node imported from the source node gets (line 162).
imported_count(node, condition_item) ==
  IF node.item = condition_item THEN node.count ELSE 0

\* The inner loop of lines 157-166 from the node point on.
RECURSIVE import_path(_, _, _, _, _)
import_path(tree, src, point, path, condition_item) ==
  IF path = <<>> THEN tree
  ELSE LET node == src.heap[Head(path)]
           next_point == search(tree, point, node.item)
       IN  IF next_point = None
             THEN import_path(
                    new_child(tree, point, node.item,
                              imported_count(node, condition_item)),
                    src, Len(tree.heap) + 1, Tail(path), condition_item)
             ELSE import_path(tree, src, next_point, Tail(path),
                              condition_item)

\* The loop of lines 152-166.
RECURSIVE import_paths(_, _, _, _)
import_paths(tree, src, paths, condition_item) ==
  IF paths = <<>> THEN tree
  ELSE import_paths(import_path(tree, src, root, Head(paths), condition_item),
                    src, Tail(paths), condition_item)

\* `=` in place of `+=`.
RECURSIVE add_count_assign(_, _, _)
add_count_assign(tree, ns, count) ==
  IF ns = <<>> THEN tree
  ELSE add_count_assign([tree EXCEPT !.heap[Head(ns)].count = count],
                        Tail(ns), count)

\* node._count += count for every node of ns (lines 173-174).
RECURSIVE add_count(_, _, _)
add_count(tree, ns, count) ==
  IF ns = <<>> THEN tree
  ELSE add_count([tree EXCEPT !.heap[Head(ns)].count = @ + count],
                 Tail(ns), count)

\* `path` in place of `path[:-1]`: the leaf is counted into itself.
RECURSIVE reconstruct_whole_path(_, _)
reconstruct_whole_path(tree, paths) ==
  IF paths = <<>> THEN tree
  ELSE LET path == Head(paths)
           count == tree.heap[path[Len(path)]].count
       IN  reconstruct_whole_path(add_count(tree, reversed(path), count),
                                  Tail(paths))

\* The loop of lines 171-174 over the paths of the new tree.
RECURSIVE reconstruct(_, _)
reconstruct(tree, paths) ==
  IF paths = <<>> THEN tree
  ELSE LET path == Head(paths)
           count == tree.heap[path[Len(path)]].count
       IN  reconstruct(
             add_count(tree, reversed(SubSeq(path, 1, Len(path) - 1)), count),
             Tail(paths))

\* The paths are never empty here: find_with_suffix passes the prefix paths
\* of an item of the tree.
conditional_tree_from_paths(src, paths) ==
  LET first == paths[1]
      condition_item == src.heap[first[Len(first)]].item
      imported == import_paths(FPTree, src, paths, condition_item)
  IN  reconstruct(imported, prefix_paths(imported, condition_item))

(***************************************************************************)
(* find_frequent_itemsets                                                  *)
(***************************************************************************)
\* A row of the DataFrame: one cell per column, the quantity bought.
Rows == [1..Cardinality(Items) -> {0, 1}]

\* list(y[x.values]) of lines 23-24: the columns whose cell is > 0, in
\* column order.
RECURSIVE listed(_, _, _)
listed(columns, row, k) ==
  IF k > Len(columns) THEN <<>>
  ELSE (IF row[k] > 0 THEN <<columns[k]>> ELSE <<>>)
         \o listed(columns, row, k + 1)

\* The Series z of line 24.
transactions(columns, rows) ==
  [r \in DOMAIN rows |-> listed(columns, rows[r], 1)]

\* The batch [a,b], [a,b,c], [a], [b,c], [b].
Scenario == <<<<1, 2>>, <<1, 2, 3>>, <<1>>, <<2, 3>>, <<2>>>>

Start(batch, ms) ==
  /\ z = batch
  /\ minimum_support = ms
  /\ pc = "build"
  /\ n = 1
  /\ master = FPTree
  /\ stack = <<>>
  /\ out = <<>>

\* find_frequent_itemsets(df, minimum_support, True) on a DataFrame.
Init ==
  \/ \E columns \in ColumnOrders, rows \in SeqsUpTo(Rows, MaxRows),
        ms \in 1..MaxMinSup :
       Start(transactions(columns, rows), ms)
  \/ Start(Scenario, 2)

\* The same on item lists in any order, each of distinct items.  Row 0 is
\* never read by the loop of line 27 and varies over two values only.
InitAnyOrder ==
  \E ms \in 1..MaxMinSup :
    \/ Start(<<>>, ms)
    \/ \E first \in {<<>>, <<2, 1>>},
          rest \in SeqsUpTo(Listings, MaxRows - 1) :
         Start(<<first>> \o rest, ms)

\* One iteration of the loop of lines 27-28: master.add(z[n]).
AddRow ==
  /\ pc = "build"
  /\ n < Len(z)
  /\ master' = FPTree_add(master, z[n + 1])
  /\ n' = n + 1
  /\ UNCHANGED <<z, minimum_support, pc, stack, out>>

\* An activation of find_with_suffix(tree, suffix) about to look at the
\* i-th pair of tree.items().
Frame(tree, suffix) == [tree |-> tree, suffix |-> suffix, i |-> 1]

\* The loop of line 27 ends; line 46 calls find_with_suffix(master, []).
StartMining ==
  /\ pc = "build"
  /\ n >= Len(z)
  /\ pc' = "mine"
  /\ stack' = <<Frame(master, <<>>)>>
  /\ UNCHANGED <<z, minimum_support, n, master, out>>

top == stack[Len(stack)]
item_at_top == items(top.tree)[top.i]
Looking == pc = "mine" /\ stack # <<>> /\ top.i <= Len(items(top.tree))

\* Line 34 without the test.
not_in_suffix_dropped(item, suffix) == TRUE

\* `item not in suffix` of line 34.
not_in_suffix(item, suffix) == item \notin ToSet(suffix)

\* suffix + [item] in place of [item] + suffix.
found_set_appended(item, suffix) == suffix \o <<item>>

\* found_set of line 36.
found_set(item, suffix) == <<item>> \o suffix

\* The for loop of line 32 moves on to the next item.
advance(frames) == [frames EXCEPT ![Len(frames)].i = @ + 1]

\* Line 34 is false because the support is below minimum_support.
SkipInfrequent ==
  /\ Looking
  /\ support_of(top.tree, item_at_top) < minimum_support
  /\ stack' = advance(stack)
  /\ UNCHANGED <<z, minimum_support, pc, n, master, out>>

\* Line 34 is false only because the item is in the suffix.
SkipInSuffix ==
  /\ Looking
  /\ support_of(top.tree, item_at_top) >= minimum_support
  /\ ~not_in_suffix(item_at_top, top.suffix)
  /\ stack' = advance(stack)
  /\ UNCHANGED <<z, minimum_support, pc, n, master, out>>

\* Lines 36-42: yield the found set with its support and call
\* find_with_suffix on the conditional tree.
Emit ==
  /\ Looking
  /\ Len(stack) < MaxDepth
  /\ support_of(top.tree, item_at_top) >= minimum_support
  /\ not_in_suffix(item_at_top, top.suffix)
  /\ LET found == found_set(item_at_top, top.suffix)
         cond_tree == conditional_tree_from_paths(
                        top.tree, prefix_paths(top.tree, item_at_top))
     IN  /\ out' = Append(out, [itemset |-> found,
                                support |-> support_of(top.tree, item_at_top)])
         /\ stack' = Append(advance(stack), Frame(cond_tree, found))
  /\ UNCHANGED <<z, minimum_support, pc, n, master>>

\* tree.items() is exhausted: the activation returns to its caller, the
\* outermost one ends the generator.
Return ==
  /\ pc = "mine"
  /\ stack # <<>>
  /\ top.i > Len(items(top.tree))
  /\ stack' = SubSeq(stack, 1, Len(stack) - 1)
  /\ pc' = IF Len(stack) = 1 THEN "done" ELSE "mine"
  /\ UNCHANGED <<z, minimum_support, n, master, out>>

Next ==
  \/ AddRow
  \/ StartMining
  \/ SkipInfrequent
  \/ SkipInSuffix
  \/ Emit
  \/ Return

Spec == Init /\ [][Next]_vars

SpecAnyOrder == InitAnyOrder /\ [][Next]_vars


(***************************************************************************)
(* Properties.                                                             *)
(***************************************************************************)
\* The rows the loop of line 27 has added to the master tree so far.
Inserted == SubSeq(z, 2, n)

\* Support by brute force: the rows of the batch holding every item of S.
BruteSupport(batch, S) ==
  Cardinality({k \in DOMAIN batch : S \subseteq ToSet(batch[k])})

Itemsets == (SUBSET Items) \ {{}}

Frequent(batch, ms) == {S \in Itemsets : BruteSupport(batch, S) >= ms}

EmittedSets == {ToSet(out[k].itemset) : k \in DOMAIN out}

EmittedPairs == {<<ToSet(out[k].itemset), out[k].support>> : k \in DOMAIN out}

\* Every row lists its items in the order of one listing of all items.
CommonOrder(batch) ==
  \E order \in ColumnOrders :
    \A r \in DOMAIN batch :
      \A i, j \in DOMAIN batch[r] :
        i < j => \E a, b \in DOMAIN order :
                   a < b /\ order[a] = batch[r][i] /\ order[b] = batch[r][j]

\* The items on the way from the root to node p, read off the parent links.
RECURSIVE ItemPath(_, _)
ItemPath(tree, p) ==
  IF p = None \/ p = root THEN <<>>
  ELSE Append(ItemPath(tree, tree.heap[p].parent), tree.heap[p].item)

IsPrefix(s, t) == Len(s) <= Len(t) /\ SubSeq(t, 1, Len(s)) = s

NonRoot(tree) == 2..Len(tree.heap)

\* The stack never reaches the cap of Emit.
StackBelowCap == Len(stack) < MaxDepth

\* C1: when the generator is exhausted, the itemsets yielded are exactly the
\* non-empty itemsets whose brute-force support over the whole supplied
\* batch is at least minimum_support.
C1_Completeness ==
  pc = "done" => EmittedSets = Frequent(z, minimum_support)

\* C2: every yielded pair reports the number of rows of the supplied batch
\* that hold every item of its itemset.
C2_SupportExact ==
  \A k \in DOMAIN out :
    out[k].support = BruteSupport(z, ToSet(out[k].itemset))

\* C3: over the whole recursion no itemset, compared as a set, is yielded
\* twice.
C3_NoDuplicates ==
  \A i, j \in DOMAIN out :
    i # j => ToSet(out[i].itemset) # ToSet(out[j].itemset)

C3_Witness ==
  /\ pc = "done"
  /\ \E i, j \in DOMAIN out :
       /\ Len(out[i].itemset) = 2 /\ Len(out[j].itemset) = 2
       /\ out[i].itemset[2] # out[j].itemset[2]

\* The yielded pairs are the brute-force frequent itemsets of the rows the
\* master tree was built from, each once, with its support.
ExactOnInserted ==
  /\ EmittedPairs =
       {<<S, BruteSupport(Inserted, S)>> :
          S \in Frequent(Inserted, minimum_support)}
  /\ Len(out) = Cardinality(EmittedPairs)

RouteInvariant(tree) ==
  \A item \in Items :
    LET ns == nodes(tree, item)
        carrying == {p \in NonRoot(tree) : tree.heap[p].item = item}
        k == route_of(tree, item)
    IN  /\ ToSet(ns) = carrying
        /\ Len(ns) = Cardinality(carrying)
        /\ \A i, j \in DOMAIN ns : i < j => ns[i] < ns[j]
        /\ (carrying = {}) = (k = 0)
        /\ k # 0 => /\ ns[1] = tree.routes[k].head
                    /\ ns[Len(ns)] = tree.routes[k].tail

\* C5: the route invariant holds of the master tree after every add and of
\* every conditional tree (a tree is the innermost of the stack when it is
\* built, and no step changes a tree of the stack).
C5_Routes ==
  /\ pc = "build" => RouteInvariant(master)
  /\ stack # <<>> => RouteInvariant(top.tree)

C5_Witness ==
  /\ \E item \in Items : Len(nodes(master, item)) >= 2
  /\ Len(stack) >= 2
  /\ \E item \in Items : Len(nodes(top.tree, item)) >= 2

\* C6: in the conditional tree of the item X, the innermost tree of the
\* stack when it is built, made from the tree below it on the stack, the
\* count of every node is the sum of the counts of the X-nodes of the source
\* whose item path starts with the node's item path.
ConservedCounts(cond, src, X) ==
  \A q \in NonRoot(cond) :
    LET under == {p \in NonRoot(src) :
                    /\ src.heap[p].item = X
                    /\ IsPrefix(ItemPath(cond, q), ItemPath(src, p))}
        listed_under == CHOOSE s \in [1..Cardinality(under) -> under] :
                          ToSet(s) = under
    IN  cond.heap[q].count =
          SumSeq([k \in DOMAIN listed_under |->
                    src.heap[listed_under[k]].count])

C6_CountConservation ==
  Len(stack) > 1 =>
    ConservedCounts(top.tree, stack[Len(stack) - 1].tree, Head(top.suffix))

C6_Witness ==
  /\ Len(stack) >= 2
  /\ \E q \in NonRoot(top.tree) :
       /\ top.tree.heap[q].item # Head(top.suffix)
       /\ top.tree.heap[q].count >= 2
       /\ Len(top.tree.heap[q].children) >= 2

\* C7: among the yielded pairs, an itemset that is part of another one has
\* at least its support.
C7_AntiMonotone ==
  \A i, j \in DOMAIN out :
    ToSet(out[i].itemset) \subseteq ToSet(out[j].itemset)
      => out[i].support >= out[j].support

C7_Witness ==
  \E i, j \in DOMAIN out :
    /\ ToSet(out[i].itemset) \subseteq ToSet(out[j].itemset)
    /\ Len(out[j].itemset) = 3
    /\ out[i].support > out[j].support

\* The test `item not in suffix` is what makes line 34 false.
GuardDecides ==
  /\ Looking
  /\ support_of(top.tree, item_at_top) >= minimum_support
  /\ item_at_top \in ToSet(top.suffix)

\* C8 as claimed: no enumerated item with enough support is in the suffix.
C8_GuardUnreachable == ~GuardDecides

\* C8 amended: the only item with enough support that is in the suffix is
\* the condition item, the first element of the suffix, and the conditional
\* tree of every activation carries it with a support of at least
\* minimum_support.
C8_GuardOnlyConditionItem ==
  /\ GuardDecides => item_at_top = Head(top.suffix)
  /\ Len(stack) > 1 =>
       support_of(top.tree, Head(top.suffix)) >= minimum_support

C8_Witness == GuardDecides /\ Len(top.suffix) >= 2

\* The distinct items of the batch.
BatchItems == UNION {ToSet(z[r]) : r \in DOMAIN z}

SuffixesDistinct ==
  \A f \in DOMAIN stack :
    /\ Distinct(stack[f].suffix)
    /\ Len(stack[f].suffix) <= Cardinality(BatchItems)

\* What is left to do, most significant first: the rows still to add, then
\* for every activation, outermost first, the items it has still to look at.
Rank ==
  IF pc = "build" THEN <<1, IF n < Len(z) THEN Len(z) - n + 1 ELSE 1>>
  ELSE <<0>> \o [f \in DOMAIN stack |->
                   Len(items(stack[f].tree)) + 1 - stack[f].i]

\* The order of the ranks: a proper prefix, or smaller at the first
\* difference.
LexLess(s, t) ==
  \/ Len(s) < Len(t) /\ SubSeq(t, 1, Len(s)) = s
  \/ \E k \in 1..Len(s) :
       /\ k <= Len(t)
       /\ s[k] < t[k]
       /\ \A j \in 1..(k - 1) : s[j] = t[j]

\* A step that can always be taken unless the generator is exhausted.
CanStep ==
  \/ pc = "done"
  \/ pc = "build"
  \/ /\ pc = "mine"
     /\ stack # <<>>
     /\ Looking /\ support_of(top.tree, item_at_top) >= minimum_support
          /\ not_in_suffix(item_at_top, top.suffix)
          => Len(stack) < MaxDepth

\* C9: pulled to exhaustion the generator ends: every step lowers the rank,
\* the ranks are sequences of bounded length of bounded numbers, and a step
\* is possible until the generator is exhausted; at every point of the
\* recursion the suffix holds distinct items, no more than the batch has.
C9_Terminates ==
  /\ [](SuffixesDistinct /\ CanStep)
  /\ [](Len(Rank) <= Cardinality(Items) + 2
          /\ \A k \in DOMAIN Rank : Rank[k] \in 0..(Len(z) + Cardinality(Items)))
  /\ [][LexLess(Rank', Rank)]_vars

C9_Witness ==
  /\ pc = "done"
  /\ \E k \in DOMAIN out : Len(out[k].itemset) = Cardinality(Items)

\* C10: after every add the master tree has one node for each non-empty prefix of an added
\* row and no other, the node counts the added rows that start with the
\* prefix, and no node has two children for one item.
C10_PrefixTree ==
  pc = "build" =>
  LET prefixes == UNION {{SubSeq(Inserted[r], 1, k) :
                            k \in 1..Len(Inserted[r])} :
                          r \in DOMAIN Inserted}
  IN  /\ \A p \in NonRoot(master) : ItemPath(master, p) \in prefixes
      /\ \A pre \in prefixes :
           \E p \in NonRoot(master) :
             /\ ItemPath(master, p) = pre
             /\ \A q \in NonRoot(master) : ItemPath(master, q) = pre => q = p
             /\ master.heap[p].count =
                  Cardinality({r \in DOMAIN Inserted :
                                 IsPrefix(pre, Inserted[r])})
      /\ \A p \in DOMAIN master.heap :
           \A i, j \in DOMAIN master.heap[p].children :
             i # j => master.heap[p].children[i].item
                        # master.heap[p].children[j].item

C10_Witness ==
  /\ n = 3
  /\ \E p, q \in NonRoot(master) :
       /\ master.heap[p].count = 2
       /\ master.heap[q].count = 1
       /\ master.heap[q].parent = p

====
